---- MODULE Spec2Model ----
(***************************************************************************)
(* safeatomic (src/src/safeatomic/atomic.py): the lock-file protocol       *)
(* (try_acquire_lock, inspect_lock, force_release_lock) and the write      *)
(* session built on it (AtomicWriter), for ONE target path shared by       *)
(* several OS processes.  The file system is the shared state: the lock    *)
(* file, the target file and one private temp file per writer.  Each       *)
(* process runs library calls step by step; the steps are the system       *)
(* calls of the code (os.path.exists, os.open, write, read, os.remove,     *)
(* os.replace), so that calls of different processes interleave as they    *)
(* do between OS processes.                                                *)
(***************************************************************************)
EXTENDS Integers, Sequences, FiniteSets, TLC

\* ------------------------------------------------------------------ bounds
MaxRetries == 2      \* largest `retries` argument a caller passes (0..MaxRetries)
MaxChunks == 2       \* largest number of write() calls a caller's block makes
MaxAge == 2          \* largest age of a lock file found at the start
MaxWait == 3         \* longest time the clock is followed past the start

\* ------------------------------------------------------------- the universe
Procs == {1, 2}                 \* running processes (their pids)
DeadPid == 7                    \* a pid that belongs to no running process
AlivePids == Procs              \* psutil.pid_exists
NoSession == 0                  \* session=None

\* One field of a lock file is an integer code: n >= 0 is the decimal text
\* of n (str.isdigit() holds), EmptyStr is "", PyNone is Python's None, a
\* digest is HashOf(label) and a timestamp is StampOf(t); Word is some other
\* text that is not a number, like "abc"; the codes of the kinds are disjoint.
EmptyStr == -1
PyNone == -2
Word == -3
HashOf(label) == -(10 + label)
StampOf(t) == -(100 + t)

IsDigit(field) == field >= 0

\* ------------------------------------------------------------ pure functions
session_to_hash(session) ==
    IF session # NoSession THEN HashOf(session) ELSE PyNone

\* f"{pid}|{session_hash or ''}|{timestamp}", as the fields split("|") gives
lock_render(pid, session_hash, timestamp) ==
    << pid, (IF session_hash = PyNone THEN EmptyStr ELSE session_hash), timestamp >>

\* parts[1] raises IndexError when the content has no separator
lock_parse_raises(parts) == Len(parts) < 2

\* lock_parse, were an empty second field kept as the empty text
lock_parse_KeepsEmpty(parts) ==
    [ pid |-> IF IsDigit(parts[1]) THEN parts[1] ELSE PyNone,
      session_hash |-> parts[2],
      timestamp |-> IF Len(parts) > 2 THEN parts[3] ELSE PyNone ]

lock_parse(parts) ==
    [ pid |-> IF IsDigit(parts[1]) THEN parts[1] ELSE PyNone,
      session_hash |-> IF parts[2] = EmptyStr THEN PyNone ELSE parts[2],
      timestamp |-> IF Len(parts) > 2 THEN parts[3] ELSE PyNone ]

is_process_alive(pid) == pid \in AlivePids

\* ------------------------------------------------------------------- files
\* A file: whether the path exists, its data, its metadata (mode/times),
\* and for the lock file the process that created this inode and when.
NewMeta == "new"
OldMeta == "old"
NoFile == [exists |-> FALSE, data |-> << >>, meta |-> NewMeta, ino |-> 0, ctime |-> 0]
File(data, meta, ino, ctime) ==
    [exists |-> TRUE, data |-> data, meta |-> meta, ino |-> ino, ctime |-> ctime]
\* the content of a file created and not written yet: "".split("|") = [""]
EmptyLock == << EmptyStr >>

\* what the block of a session of process p writes: n chunks, each tagged p
ContentsOf(p) == { [i \in 1..n |-> p] : n \in 0..MaxChunks }

VARIABLES
    lock,       \* the lock file  path + ".lock"
    target,     \* the target file
    tmp,        \* tmp[p]: the temp file of p's AtomicWriter (self.tmpfile)
    now,        \* the wall clock
    pc,         \* pc[p]: where process p is in its current call
    args,       \* args[p]: the arguments of p's current call
    attempt,    \* attempt[p]: iterations of try_acquire_lock's loop started
    sleeps,     \* sleeps[p]: time.sleep(delay) calls of the current call
    result,     \* result[p]: what p's last try_acquire_lock returned
    outcome,    \* outcome[p]: how p's last write session went
    held,       \* held[p]: try_acquire_lock returned True to p, not released since
    wrote,      \* wrote[p]: write() calls made so far by the block of p's session
    prior,      \* prior[p]: the target as it was when p's current call began
    lock0,      \* lock0[p]: the lock file as it was when p's current call began
    src,        \* the file at the source path of a move
    src0,       \* the source file as it was when the current move began
    ret         \* ret[p]: what p's last query or read returned

vars == << lock, target, tmp, now, pc, args, attempt, sleeps, result, outcome,
           held, wrote, prior, lock0, src, src0, ret >>

\* what only the moves, the queries and the reads change
aux == << src, src0, ret >>
NoRet == [kind |-> "none"]

NoArgs == [kind |-> "none", retries |-> 0, session |-> NoSession, force |-> FALSE,
           simulate |-> FALSE, intended |-> << >>, stamp |-> 0,
           require_lock |-> FALSE, max_age |-> 0, after |-> "none"]
AcquireArgs(retries, session, force) ==
    [NoArgs EXCEPT !.kind = "acquire", !.retries = retries, !.session = session,
                   !.force = force, !.stamp = now]
SessionArgs(retries, session, force, simulate, intended) ==
    [NoArgs EXCEPT !.kind = "session", !.retries = retries, !.session = session,
                   !.force = force, !.simulate = simulate, !.intended = intended,
                   !.stamp = now]
ReleaseArgs == [NoArgs EXCEPT !.kind = "release"]
\* a call that was a write session onto the target
IsWriteOf(a) == a.kind = "session" /\ ~a.simulate

\* ------------------------------------------------------------- text streams
\* open_atomic opens text streams with the default newline handling.  A
\* character is a number: 13 and 10 are "\r" and "\n", any other number is a
\* character no stream changes (utf-8 encodes and decodes it to itself).
CR == 13
LF == 10
\* os.linesep of the platform, POSIX here
LineSep == << LF >>

\* what f.write(chunk) of a stream opened with mode "w" puts into the file
WrittenText(chunk) == IF chunk = LF THEN LineSep ELSE << chunk >>

\* what f.read() of a stream opened with mode "r" returns for the file's
\* data: "\r\n" and a lone "\r" are both returned as "\n"
RECURSIVE ReadText(_)
ReadText(data) ==
    IF data = << >> THEN << >>
    ELSE IF Head(data) # CR THEN << Head(data) >> \o ReadText(Tail(data))
    ELSE IF Len(data) >= 2 /\ data[2] = LF THEN << LF >> \o ReadText(Tail(Tail(data)))
    ELSE << LF >> \o ReadText(Tail(data))

\* --------------------------------------------------------------- inspection
is_locked == lock.exists

\* `except Exception: return LockInfo(lp, True, None, False, None, None, corrupt=True)`
CorruptInfo ==
    [exists |-> TRUE, pid |-> PyNone, alive |-> FALSE,
     session_hash |-> PyNone, timestamp |-> PyNone, corrupt |-> TRUE]

\* inspect_lock of a lock file f that no other process touches meanwhile
inspect_lock(f) ==
    IF ~f.exists
    THEN [exists |-> FALSE, pid |-> PyNone, alive |-> FALSE,
          session_hash |-> PyNone, timestamp |-> PyNone, corrupt |-> FALSE]
    ELSE IF lock_parse_raises(f.data)
    THEN CorruptInfo
    ELSE LET d == lock_parse(f.data) IN
         [exists |-> TRUE, pid |-> d.pid,
          alive |-> IF d.pid # PyNone /\ d.pid # 0 THEN is_process_alive(d.pid) ELSE FALSE,
          session_hash |-> d.session_hash, timestamp |-> d.timestamp,
          corrupt |-> FALSE]

\* Reclaims, were the age of the lock file taken for a reason to reclaim it
Reclaims_ByAge(info, force) == ~info.alive \/ force \/ now - lock.ctime >= MaxAge

\* `if not info.alive or force:` of try_acquire_lock
Reclaims(info, force) == ~info.alive \/ force

\* ----------------------------------------------------------------- the state
InitData == { << 0, 0, 0 >> }
InitTargets == {NoFile} \cup { File(d, OldMeta, 0, 0) : d \in InitData }
\* the lock file a call may find: none, one created and never written, or the
\* record of an owner (a running process that holds it, or a process that died)
OwnerLabel == 2
InitLocks ==
    {NoFile}
    \cup { File(EmptyLock, NewMeta, 0, t) : t \in {0, MaxAge} }
    \cup { File(lock_render(o, session_to_hash(OwnerLabel), StampOf(t)), NewMeta, o, t) :
             o \in Procs \cup {DeadPid}, t \in {0, MaxAge} }

\* it is MaxAge o'clock; a lock file found at the start is new or MaxAge old
InitFrom(locks, targets, sources) ==
    /\ lock \in locks
    /\ target \in targets
    /\ src \in sources
    /\ src0 = src
    /\ tmp = [p \in Procs |-> NoFile]
    /\ now = MaxAge
    /\ pc = [p \in Procs |-> "idle"]
    /\ args = [p \in Procs |-> NoArgs]
    /\ attempt = [p \in Procs |-> 0]
    /\ sleeps = [p \in Procs |-> 0]
    /\ result = [p \in Procs |-> "none"]
    /\ outcome = [p \in Procs |-> "none"]
    /\ held = [p \in Procs |-> lock.exists /\ lock.ino = p]
    /\ wrote = [p \in Procs |-> 0]
    /\ prior = [p \in Procs |-> target]
    /\ lock0 = [p \in Procs |-> lock]
    /\ ret = [p \in Procs |-> NoRet]

InitWith(locks) == InitFrom(locks, InitTargets, {NoFile})


\* ------------------------------------------------------ try_acquire_lock
\* What follows the return of try_acquire_lock with value v ("true", "false",
\* or "raised" for an exception): the caller itself, or AtomicWriter.__enter__.
AfterAcquirePc(p, v) ==
    IF args[p].kind = "session" /\ v = "true" THEN "enter_open" ELSE "idle"
AfterAcquireOutcome(p, v) ==
    IF args[p].kind # "session" \/ v = "true" THEN outcome[p]
    ELSE IF v = "false" THEN "lock_unavailable" ELSE "raised"

AcqReturn(p, v) ==
    /\ result' = [result EXCEPT ![p] = v]
    /\ held' = [held EXCEPT ![p] = (v = "true") \/ held[p]]
    /\ pc' = [pc EXCEPT ![p] = AfterAcquirePc(p, v)]
    /\ outcome' = [outcome EXCEPT ![p] = AfterAcquireOutcome(p, v)]

BeginCall(p, a, first) ==
    /\ pc[p] = "idle"
    /\ args' = [args EXCEPT ![p] = a]
    /\ pc' = [pc EXCEPT ![p] = first]
    /\ attempt' = [attempt EXCEPT ![p] = 0]
    /\ sleeps' = [sleeps EXCEPT ![p] = 0]
    /\ result' = [result EXCEPT ![p] = "none"]
    /\ outcome' = [outcome EXCEPT ![p] = "none"]
    /\ wrote' = [wrote EXCEPT ![p] = 0]
    /\ prior' = [prior EXCEPT ![p] = target]
    /\ lock0' = [lock0 EXCEPT ![p] = lock]

\* a caller calls try_acquire_lock(path, retries, delay, session, force)
try_acquire_lock(p, retries, session, force) ==
    /\ BeginCall(p, AcquireArgs(retries, session, force), "acq_loop")
    /\ UNCHANGED << lock, target, tmp, now, held >>
    /\ ret' = [ret EXCEPT ![p] = NoRet]
    /\ UNCHANGED << src, src0 >>

\* `for _ in range(retries):` and `if not os.path.exists(lp):`
AcqLoop(p) ==
    /\ pc[p] = "acq_loop"
    /\ IF attempt[p] >= args[p].retries
       THEN /\ AcqReturn(p, "false")
            /\ UNCHANGED attempt
       ELSE /\ attempt' = [attempt EXCEPT ![p] = @ + 1]
            /\ pc' = [pc EXCEPT ![p] = IF lock.exists THEN "acq_inspect" ELSE "acq_create"]
            /\ UNCHANGED << result, held, outcome >>
    /\ UNCHANGED << lock, target, tmp, now, args, sleeps, wrote, prior, lock0 >>
    /\ UNCHANGED aux

\* os.open(lp, O_CREAT | O_EXCL | O_WRONLY); FileExistsError: pass, then sleep
AcqCreate(p) ==
    /\ pc[p] = "acq_create"
    /\ IF ~lock.exists
       THEN /\ lock' = File(EmptyLock, NewMeta, p, now)
            /\ pc' = [pc EXCEPT ![p] = "acq_write"]
            /\ UNCHANGED sleeps
       ELSE /\ sleeps' = [sleeps EXCEPT ![p] = @ + 1]
            /\ pc' = [pc EXCEPT ![p] = "acq_loop"]
            /\ UNCHANGED lock
    /\ UNCHANGED << target, tmp, now, args, attempt, result, outcome, held, wrote,
                    prior, lock0 >>
    /\ UNCHANGED aux

\* the record written through the descriptor: it reaches the lock path only
\* while the path still names the inode this process created; the write is a
\* change of the inode, whose time os.path.getctime reports
WrittenLock(p, f) ==
    IF f.exists /\ f.ino = p
    THEN [f EXCEPT !.data = lock_render(p, session_to_hash(args[p].session),
                                        StampOf(args[p].stamp)),
                   !.ctime = now]
    ELSE f

\* the process whose record is still to be written to the inode that f names
WriterOf(f) == IF f.ino \in Procs /\ pc[f.ino] = "acq_write" THEN f.ino ELSE 0

\* what a handle h shows once p has written its record: the record, when h
\* is open on the inode p created, even after the lock path lost that inode
SeenThrough(h, p) ==
    IF h.kind = "handle" /\ h.writer = p
    THEN [h EXCEPT !.data = lock_render(p, session_to_hash(args[p].session),
                                        StampOf(args[p].stamp)),
                   !.writer = 0]
    ELSE h

\* `with os.fdopen(fd, "w") as f: f.write(lock_render(...))`, `return True`
AcqWrite(p) ==
    /\ pc[p] = "acq_write"
    /\ lock' = WrittenLock(p, lock)
    /\ ret' = [q \in Procs |-> SeenThrough(ret[q], p)]
    /\ AcqReturn(p, "true")
    /\ UNCHANGED << target, tmp, now, args, attempt, sleeps, wrote, prior, lock0 >>
    /\ UNCHANGED << src, src0 >>

\* `info = inspect_lock(path)` has answered: `if not info.alive or force:`
\* goes on to force_release_lock, otherwise the attempt ends in the sleep
AcqInspected(p, info) ==
    /\ IF Reclaims(info, args[p].force)
       THEN /\ pc' = [pc EXCEPT ![p] = "acq_del_check"]
            /\ UNCHANGED sleeps
       ELSE /\ sleeps' = [sleeps EXCEPT ![p] = @ + 1]
            /\ pc' = [pc EXCEPT ![p] = "acq_loop"]
    /\ ret' = [ret EXCEPT ![p] = NoRet]

\* inspect_lock: `if not os.path.exists(lp): return LockInfo(lp, False, ...)`
AcqInspect(p) ==
    /\ pc[p] = "acq_inspect"
    /\ IF ~lock.exists
       THEN AcqInspected(p, inspect_lock(NoFile))
       ELSE /\ pc' = [pc EXCEPT ![p] = "acq_insp_open"]
            /\ UNCHANGED << sleeps, ret >>
    /\ UNCHANGED << lock, target, tmp, now, args, attempt, result, outcome, held,
                    wrote, prior, lock0, src, src0 >>

\* inspect_lock: `with open(lp, "r") as f:`; a lock file removed since
\* os.path.exists makes open raise, and `except Exception:` answers corrupt
AcqInspOpen(p) ==
    /\ pc[p] = "acq_insp_open"
    /\ IF ~lock.exists
       THEN AcqInspected(p, CorruptInfo)
       ELSE /\ ret' = [ret EXCEPT ![p] = [kind |-> "handle", data |-> lock.data,
                                          writer |-> WriterOf(lock)]]
            /\ pc' = [pc EXCEPT ![p] = "acq_insp_read"]
            /\ UNCHANGED sleeps
    /\ UNCHANGED << lock, target, tmp, now, args, attempt, result, outcome, held,
                    wrote, prior, lock0, src, src0 >>

\* inspect_lock: `data = lock_parse(f.read())` and the rest, on the content
\* of the opened inode
AcqInspRead(p) ==
    /\ pc[p] = "acq_insp_read"
    /\ AcqInspected(p, inspect_lock(File(ret[p].data, NewMeta, 0, 0)))
    /\ UNCHANGED << lock, target, tmp, now, args, attempt, result, outcome, held,
                    wrote, prior, lock0, src, src0 >>

\* force_release_lock: `if os.path.exists(lp):`; then `continue`
AcqDelCheck(p) ==
    /\ pc[p] = "acq_del_check"
    /\ pc' = [pc EXCEPT ![p] = IF lock.exists THEN "acq_del_remove" ELSE "acq_loop"]
    /\ UNCHANGED << lock, target, tmp, now, args, attempt, sleeps, result, outcome,
                    held, wrote, prior, lock0 >>
    /\ UNCHANGED aux

\* AcqDelRemove, were the delay spent after a reclaimed lock too
AcqDelRemove_Sleeps(p) ==
    /\ pc[p] = "acq_del_remove"
    /\ IF lock.exists
       THEN /\ lock' = NoFile
            /\ sleeps' = [sleeps EXCEPT ![p] = @ + 1]
            /\ pc' = [pc EXCEPT ![p] = "acq_loop"]
            /\ UNCHANGED << result, held, outcome >>
       ELSE /\ AcqReturn(p, "raised")
            /\ UNCHANGED << lock, sleeps >>
    /\ UNCHANGED << target, tmp, now, args, attempt, wrote, prior, lock0 >>
    /\ UNCHANGED aux

\* force_release_lock: `os.remove(lp)`, FileNotFoundError when the file is gone
AcqDelRemove(p) ==
    /\ pc[p] = "acq_del_remove"
    /\ IF lock.exists
       THEN /\ lock' = NoFile
            /\ pc' = [pc EXCEPT ![p] = "acq_loop"]
            /\ UNCHANGED << result, held, outcome >>
       ELSE /\ AcqReturn(p, "raised")
            /\ UNCHANGED lock
    /\ UNCHANGED << target, tmp, now, args, attempt, sleeps, wrote, prior, lock0 >>
    /\ UNCHANGED aux

AcquireStep(p) ==
    \/ AcqLoop(p)
    \/ AcqCreate(p)
    \/ AcqWrite(p)
    \/ AcqInspect(p)
    \/ AcqInspOpen(p)
    \/ AcqInspRead(p)
    \/ AcqDelCheck(p)
    \/ AcqDelRemove(p)

\* ----------------------------------------------------------- release_lock
\* a caller calls release_lock(path), which is force_release_lock(path)
release_lock(p) ==
    /\ BeginCall(p, ReleaseArgs, "rel_check")
    /\ UNCHANGED << lock, target, tmp, now, held >>
    /\ ret' = [ret EXCEPT ![p] = NoRet]
    /\ UNCHANGED << src, src0 >>

\* RelCheck, were only a lock file that names the caller removed
RelCheck_OwnerOnly(p) ==
    /\ pc[p] = "rel_check"
    /\ pc' = [pc EXCEPT ![p] = IF lock.exists /\ inspect_lock(lock).pid = p
                               THEN "rel_remove" ELSE "idle"]
    /\ held' = [held EXCEPT ![p] = IF lock.exists THEN @ ELSE FALSE]
    /\ UNCHANGED << lock, target, tmp, now, args, attempt, sleeps, result, outcome,
                    wrote, prior, lock0 >>
    /\ UNCHANGED aux

RelCheck(p) ==
    /\ pc[p] = "rel_check"
    /\ pc' = [pc EXCEPT ![p] = IF lock.exists THEN "rel_remove" ELSE "idle"]
    /\ held' = [held EXCEPT ![p] = IF lock.exists THEN @ ELSE FALSE]
    /\ UNCHANGED << lock, target, tmp, now, args, attempt, sleeps, result, outcome,
                    wrote, prior, lock0 >>
    /\ UNCHANGED aux

RelRemove(p) ==
    /\ pc[p] = "rel_remove"
    /\ lock' = NoFile
    /\ result' = [result EXCEPT ![p] = IF lock.exists THEN @ ELSE "raised"]
    /\ held' = [held EXCEPT ![p] = FALSE]
    /\ pc' = [pc EXCEPT ![p] = "idle"]
    /\ UNCHANGED << target, tmp, now, args, attempt, sleeps, outcome, wrote, prior,
                    lock0 >>
    /\ UNCHANGED aux

ReleaseStep(p) == RelCheck(p) \/ RelRemove(p)

\* a caller calls inspect_lock(path)
InspectArgs == [NoArgs EXCEPT !.kind = "inspect"]

InspectQuery(p) ==
    /\ BeginCall(p, InspectArgs, "insp_exists")
    /\ ret' = [ret EXCEPT ![p] = NoRet]
    /\ UNCHANGED << lock, target, tmp, now, held, src, src0 >>

InspectReturn(p, info) ==
    /\ ret' = [ret EXCEPT ![p] = [kind |-> "info", info |-> info]]
    /\ pc' = [pc EXCEPT ![p] = "idle"]

\* `if not os.path.exists(lp): return LockInfo(lp, False, None, False, None, None)`
InspExists(p) ==
    /\ pc[p] = "insp_exists"
    /\ IF ~lock.exists
       THEN InspectReturn(p, inspect_lock(NoFile))
       ELSE /\ pc' = [pc EXCEPT ![p] = "insp_open"]
            /\ UNCHANGED ret
    /\ UNCHANGED << lock, target, tmp, now, args, attempt, sleeps, result, outcome,
                    held, wrote, prior, lock0, src, src0 >>

\* `with open(lp, "r") as f:`; when the lock file has been removed since
\* os.path.exists, open raises and `except Exception:` answers with
\* LockInfo(lp, True, None, False, None, None, corrupt=True)
InspOpen(p) ==
    /\ pc[p] = "insp_open"
    /\ IF ~lock.exists
       THEN InspectReturn(p, CorruptInfo)
       ELSE /\ ret' = [ret EXCEPT ![p] = [kind |-> "handle", data |-> lock.data,
                                          writer |-> WriterOf(lock)]]
            /\ pc' = [pc EXCEPT ![p] = "insp_read"]
    /\ UNCHANGED << lock, target, tmp, now, args, attempt, sleeps, result, outcome,
                    held, wrote, prior, lock0, src, src0 >>

\* `data = lock_parse(f.read())` and the rest: the content of the opened inode,
\* whether or not the lock path still names it
InspRead(p) ==
    /\ pc[p] = "insp_read"
    /\ InspectReturn(p, inspect_lock(File(ret[p].data, NewMeta, 0, 0)))
    /\ UNCHANGED << lock, target, tmp, now, args, attempt, sleeps, result, outcome,
                    held, wrote, prior, lock0, src, src0 >>

InspectStep(p) == InspExists(p) \/ InspOpen(p) \/ InspRead(p)

\* ------------------------------------------------------------- stale locks
\* time.time() moves on between any two steps of any process
Tick ==
    /\ now < MaxAge + MaxWait
    /\ now' = now + 1
    /\ UNCHANGED << lock, target, tmp, pc, args, attempt, sleeps, result, outcome,
                    held, wrote, prior, lock0 >>
    /\ UNCHANGED aux

\* ExceedsAge, were a lock as old as max_age_s stale already
ExceedsAge_Inclusive(age, max_age) == age >= max_age

\* `get_lock_age(path) > max_age_s`
ExceedsAge(age, max_age) == age > max_age

StaleArgs(kind, max_age) == [NoArgs EXCEPT !.kind = kind, !.max_age = max_age]

\* a caller calls get_lock_age(path)
get_lock_age(p) ==
    /\ BeginCall(p, StaleArgs("get_age", 0), "age_exists")
    /\ ret' = [ret EXCEPT ![p] = NoRet]
    /\ UNCHANGED << lock, target, tmp, now, held, src, src0 >>

\* a caller calls is_stale_lock(path, max_age_s)
is_stale_lock(p, max_age) ==
    /\ BeginCall(p, StaleArgs("is_stale", max_age), "stale_locked")
    /\ ret' = [ret EXCEPT ![p] = NoRet]
    /\ UNCHANGED << lock, target, tmp, now, held, src, src0 >>

\* a caller calls release_stale_lock(path, max_age_s)
release_stale_lock(p, max_age) ==
    /\ BeginCall(p, StaleArgs("release_stale", max_age), "stale_locked")
    /\ ret' = [ret EXCEPT ![p] = NoRet]
    /\ UNCHANGED << lock, target, tmp, now, held, src, src0 >>

\* is_stale_lock returns v, to its caller or to release_stale_lock:
\* `if is_stale_lock(path, max_age_s): force_release_lock(path)`; at is the
\* time the call read from the clock
StaleReturn(p, v, at) ==
    /\ ret' = [ret EXCEPT ![p] = [kind |-> "bool", value |-> v, at |-> at]]
    /\ pc' = [pc EXCEPT ![p] = IF args[p].kind = "release_stale" /\ v
                               THEN "rel_check" ELSE "idle"]

\* get_lock_age returns age, to its caller or to is_stale_lock
AgeReturn(p, age, at) ==
    IF args[p].kind = "get_age"
    THEN /\ ret' = [ret EXCEPT ![p] = [kind |-> "age", value |-> age, at |-> at]]
         /\ pc' = [pc EXCEPT ![p] = "idle"]
    ELSE StaleReturn(p, ExceedsAge(age, args[p].max_age), at)

\* `... if is_locked(path) else False`
StaleLocked(p) ==
    /\ pc[p] = "stale_locked"
    /\ IF is_locked
       THEN /\ pc' = [pc EXCEPT ![p] = "age_exists"]
            /\ UNCHANGED ret
       ELSE StaleReturn(p, FALSE, now)
    /\ UNCHANGED << lock, target, tmp, now, args, attempt, sleeps, result, outcome,
                    held, wrote, prior, lock0, src, src0 >>

\* get_lock_age: `... if os.path.exists(lp) else 0.0`, evaluated first
AgeExists(p) ==
    /\ pc[p] = "age_exists"
    /\ IF lock.exists
       THEN /\ pc' = [pc EXCEPT ![p] = "age_time"]
            /\ UNCHANGED ret
       ELSE AgeReturn(p, 0, now)
    /\ UNCHANGED << lock, target, tmp, now, args, attempt, sleeps, result, outcome,
                    held, wrote, prior, lock0, src, src0 >>

\* get_lock_age: `time.time()`, the left operand of the difference
AgeTime(p) ==
    /\ pc[p] = "age_time"
    /\ ret' = [ret EXCEPT ![p] = [kind |-> "clock", at |-> now]]
    /\ pc' = [pc EXCEPT ![p] = "age_ctime"]
    /\ UNCHANGED << lock, target, tmp, now, args, attempt, sleeps, result, outcome,
                    held, wrote, prior, lock0, src, src0 >>

\* get_lock_age: `- os.path.getctime(lp)`, the right operand, read after the
\* clock: a lock file changed since then is younger than nothing, and
\* os.path.getctime raises FileNotFoundError when the lock file has been
\* removed since os.path.exists
AgeCtime(p) ==
    /\ pc[p] = "age_ctime"
    /\ IF lock.exists
       THEN /\ AgeReturn(p, ret[p].at - lock.ctime, ret[p].at)
            /\ UNCHANGED result
       ELSE /\ result' = [result EXCEPT ![p] = "raised"]
            /\ pc' = [pc EXCEPT ![p] = "idle"]
            /\ UNCHANGED ret
    /\ UNCHANGED << lock, target, tmp, now, args, attempt, sleeps, outcome,
                    held, wrote, prior, lock0, src, src0 >>

StaleStep(p) == StaleLocked(p) \/ AgeExists(p) \/ AgeTime(p) \/ AgeCtime(p)

\* ------------------------------------------------------------ AtomicWriter
\* EnterFirstPc, were only the lock skipped by a simulated session
EnterFirstPc_OpensTemp(simulate) == IF simulate THEN "enter_open" ELSE "acq_loop"

\* __enter__: `if self.simulate:` opens os.devnull and returns; otherwise
\* try_acquire_lock is called first
EnterFirstPc(simulate) == IF simulate THEN "block" ELSE "acq_loop"

\* `with AtomicWriter(path, retries=, session=, force=, simulate=) as f:`
\* __init__ picks a fresh temp path, __enter__ begins
AtomicWriter(p, retries, session, force, simulate, intended) ==
    /\ BeginCall(p, SessionArgs(retries, session, force, simulate, intended),
                 EnterFirstPc(simulate))
    /\ tmp' = [tmp EXCEPT ![p] = NoFile]
    /\ UNCHANGED << lock, target, now, held >>
    /\ ret' = [ret EXCEPT ![p] = NoRet]
    /\ UNCHANGED << src, src0 >>

\* `self._file = open_atomic(self.tmpfile, "w", ...)`: the open may fail
\* (name too long, unknown encoding), with or without the file created;
\* the exception leaves __enter__, so __exit__ never runs
EnterOpen(p, ok, created) ==
    /\ pc[p] = "enter_open"
    /\ tmp' = [tmp EXCEPT ![p] = IF ok \/ created
                                 THEN File(<< >>, NewMeta, p, now) ELSE @]
    /\ pc' = [pc EXCEPT ![p] = IF ok THEN "block" ELSE "idle"]
    /\ outcome' = [outcome EXCEPT ![p] = IF ok THEN @ ELSE "open_failed"]
    /\ UNCHANGED << lock, target, now, args, attempt, sleeps, result, held, wrote,
                    prior, lock0 >>
    /\ UNCHANGED aux

\* what a write() of the block leaves in the session's file: os.devnull
\* keeps nothing
Appended(f, chunk, simulate) ==
    IF simulate THEN f ELSE [f EXCEPT !.data = @ \o WrittenText(chunk)]

\* BlockWrite, were the stream opened on the target itself
BlockWrite_InPlace(p) ==
    /\ pc[p] = "block"
    /\ wrote[p] < Len(args[p].intended)
    /\ wrote' = [wrote EXCEPT ![p] = @ + 1]
    /\ target' = IF target.exists
                 THEN [target EXCEPT !.data = Append(@, args[p].intended[wrote[p] + 1])]
                 ELSE File(<< args[p].intended[wrote[p] + 1] >>, NewMeta, 0, 0)
    /\ UNCHANGED << lock, tmp, now, pc, args, attempt, sleeps, result, outcome,
                    held, prior, lock0 >>
    /\ UNCHANGED aux

\* the caller's block: one f.write(chunk); buffered text reaches the file by
\* close() at the latest, and until the rename after close() only this
\* session knows the temp file
BlockWrite(p) ==
    /\ pc[p] = "block"
    /\ wrote[p] < Len(args[p].intended)
    /\ wrote' = [wrote EXCEPT ![p] = @ + 1]
    /\ tmp' = [tmp EXCEPT ![p] =
                  Appended(@, args[p].intended[wrote[p] + 1], args[p].simulate)]
    /\ UNCHANGED << lock, target, now, pc, args, attempt, sleeps, result, outcome,
                    held, prior, lock0 >>
    /\ UNCHANGED aux

\* the caller's block ends: normally after its last write, or by raising an
\* exception at any point; either way __exit__ runs
BlockEnd(p, raises) ==
    /\ pc[p] = "block"
    /\ raises \/ wrote[p] = Len(args[p].intended)
    /\ outcome' = [outcome EXCEPT ![p] = IF raises THEN "block_raised" ELSE @]
    /\ pc' = [pc EXCEPT ![p] = "exit_stat"]
    /\ UNCHANGED << lock, target, tmp, now, args, attempt, sleeps, result, held,
                    wrote, prior, lock0 >>
    /\ UNCHANGED aux

\* how a session that reached the end of __exit__ went
ClosedOutcome(p) == IF outcome[p] = "block_raised" THEN "block_error" ELSE "ok"

\* shutil.copystat(self.path, self.tmpfile); a failure is printed and ignored
CopiedStat(f, from, ok) == IF ok THEN [f EXCEPT !.meta = from.meta] ELSE f

\* __exit__: `self._file.close()`, then `if not self.simulate:` and
\* `if os.path.exists(self.path): shutil.copystat(...)`
ExitStat(p, statok) ==
    /\ pc[p] = "exit_stat"
    /\ IF args[p].simulate
       THEN /\ pc' = [pc EXCEPT ![p] = "idle"]
            /\ outcome' = [outcome EXCEPT ![p] = ClosedOutcome(p)]
            /\ UNCHANGED tmp
       ELSE /\ pc' = [pc EXCEPT ![p] = "exit_replace"]
            /\ tmp' = [tmp EXCEPT ![p] =
                          IF target.exists THEN CopiedStat(@, target, statok) ELSE @]
            /\ UNCHANGED outcome
    /\ UNCHANGED << lock, target, now, args, attempt, sleeps, result, held, wrote,
                    prior, lock0 >>
    /\ UNCHANGED aux

\* os.replace(from, onto): the path onto names from's file in one step
Replaced(from, onto) == [from EXCEPT !.ino = 0, !.ctime = 0]

\* __exit__: `os.replace(self.tmpfile, self.path)`; FileNotFoundError when
\* the temp file is missing; the `finally:` block follows in both cases
ExitReplace(p) ==
    /\ pc[p] = "exit_replace"
    /\ IF tmp[p].exists
       THEN /\ target' = Replaced(tmp[p], target)
            /\ tmp' = [tmp EXCEPT ![p] = NoFile]
            /\ UNCHANGED outcome
       ELSE /\ outcome' = [outcome EXCEPT ![p] = "exit_raised"]
            /\ UNCHANGED << target, tmp >>
    /\ pc' = [pc EXCEPT ![p] = "exit_rel_check"]
    /\ UNCHANGED << lock, now, args, attempt, sleeps, result, held, wrote, prior,
                    lock0 >>
    /\ UNCHANGED aux

\* the end of __exit__ after force_release_lock returned:
\* `if os.path.exists(self.tmpfile): os.remove(self.tmpfile)`
ExitFinish(p) ==
    /\ tmp' = [tmp EXCEPT ![p] = NoFile]
    /\ outcome' = [outcome EXCEPT ![p] =
                      IF @ = "exit_raised" THEN @ ELSE ClosedOutcome(p)]
    /\ held' = [held EXCEPT ![p] = FALSE]
    /\ pc' = [pc EXCEPT ![p] = "idle"]

\* finally: force_release_lock(self.path): `if os.path.exists(lp):`
ExitRelCheck(p) ==
    /\ pc[p] = "exit_rel_check"
    /\ IF lock.exists
       THEN /\ pc' = [pc EXCEPT ![p] = "exit_rel_remove"]
            /\ UNCHANGED << tmp, outcome, held >>
       ELSE ExitFinish(p)
    /\ UNCHANGED << lock, target, now, args, attempt, sleeps, result, wrote, prior,
                    lock0 >>
    /\ UNCHANGED aux

\* ExitRelRemove, were the lock file left in place by the close
ExitRelRemove_Keep(p) ==
    /\ pc[p] = "exit_rel_remove"
    /\ ExitFinish(p)
    /\ UNCHANGED << lock, target, now, args, attempt, sleeps, result, wrote, prior,
                    lock0 >>
    /\ UNCHANGED aux

\* ExitRelRemove, were only a lock file that names the closing process removed
ExitRelRemove_OwnerOnly(p) ==
    /\ pc[p] = "exit_rel_remove"
    /\ IF lock.exists
       THEN /\ lock' = IF inspect_lock(lock).pid = p THEN NoFile ELSE lock
            /\ ExitFinish(p)
       ELSE /\ outcome' = [outcome EXCEPT ![p] = "exit_raised"]
            /\ held' = [held EXCEPT ![p] = FALSE]
            /\ pc' = [pc EXCEPT ![p] = "idle"]
            /\ UNCHANGED << lock, tmp >>
    /\ UNCHANGED << target, now, args, attempt, sleeps, result, wrote, prior, lock0 >>
    /\ UNCHANGED aux

\* finally: force_release_lock(self.path): `os.remove(lp)`; when the file is
\* gone FileNotFoundError leaves __exit__ and the temp file is not looked at
ExitRelRemove(p) ==
    /\ pc[p] = "exit_rel_remove"
    /\ IF lock.exists
       THEN /\ lock' = NoFile
            /\ ExitFinish(p)
       ELSE /\ outcome' = [outcome EXCEPT ![p] = "exit_raised"]
            /\ held' = [held EXCEPT ![p] = FALSE]
            /\ pc' = [pc EXCEPT ![p] = "idle"]
            /\ UNCHANGED << lock, tmp >>
    /\ UNCHANGED << target, now, args, attempt, sleeps, result, wrote, prior, lock0 >>
    /\ UNCHANGED aux

SessionStep(p) ==
    \/ \E ok, created \in BOOLEAN : EnterOpen(p, ok, created)
    \/ BlockWrite(p)
    \/ \E raises \in BOOLEAN : BlockEnd(p, raises)
    \/ \E statok \in BOOLEAN : ExitStat(p, statok)
    \/ ExitReplace(p)
    \/ ExitRelCheck(p)
    \/ ExitRelRemove(p)

\* ------------------------------------------------------------ AtomicReader
\* the call made before this one and how it went, for a read that follows a
\* write: the data of a write session that closed normally
ReadArgs(p, retries, require_lock) ==
    [NoArgs EXCEPT !.kind = "read", !.retries = retries, !.require_lock = require_lock,
                   !.intended = args[p].intended,
                   !.after = IF IsWriteOf(args[p]) THEN outcome[p] ELSE "none"]

\* `with AtomicReader(path, retries=, require_lock=) as f:`, __enter__ begins
AtomicReader(p, retries, require_lock) ==
    /\ BeginCall(p, ReadArgs(p, retries, require_lock), "rd_loop")
    /\ ret' = [ret EXCEPT ![p] = NoRet]
    /\ UNCHANGED << lock, target, tmp, now, held, src, src0 >>

\* RdLoop, were the lock file never looked at
RdLoop_NoLockCheck(p) ==
    /\ pc[p] = "rd_loop"
    /\ IF attempt[p] >= args[p].retries
       THEN /\ pc' = [pc EXCEPT ![p] = "idle"]
            /\ outcome' = [outcome EXCEPT ![p] = "read_failed"]
            /\ UNCHANGED attempt
       ELSE /\ attempt' = [attempt EXCEPT ![p] = @ + 1]
            /\ pc' = [pc EXCEPT ![p] = "rd_open"]
            /\ UNCHANGED outcome
    /\ UNCHANGED << lock, target, tmp, now, args, sleeps, result, held, wrote, prior,
                    lock0, src, src0, ret >>

\* `for _ in range(self.retries):`,
\* `if not self.require_lock or not is_locked(self.path):`, else
\* `time.sleep(self.delay)`; after the loop `raise RuntimeError(...)`
RdLoop(p) ==
    /\ pc[p] = "rd_loop"
    /\ IF attempt[p] >= args[p].retries
       THEN /\ pc' = [pc EXCEPT ![p] = "idle"]
            /\ outcome' = [outcome EXCEPT ![p] = "read_failed"]
            /\ UNCHANGED << attempt, sleeps >>
       ELSE /\ attempt' = [attempt EXCEPT ![p] = @ + 1]
            /\ IF args[p].require_lock /\ is_locked
               THEN /\ sleeps' = [sleeps EXCEPT ![p] = @ + 1]
                    /\ UNCHANGED pc
               ELSE /\ pc' = [pc EXCEPT ![p] = "rd_open"]
                    /\ UNCHANGED sleeps
            /\ UNCHANGED outcome
    /\ UNCHANGED << lock, target, tmp, now, args, result, held, wrote, prior, lock0,
                    src, src0, ret >>

\* the stream open() returns: it reads the file the path named at the open
Stream(f) == [kind |-> "stream", data |-> f.data]

\* `self._file = open_atomic(self.path, "r", ...)`, `return self._file`;
\* `except FileNotFoundError: time.sleep(self.delay); continue`
RdOpen(p) ==
    /\ pc[p] = "rd_open"
    /\ IF target.exists
       THEN /\ ret' = [ret EXCEPT ![p] = Stream(target)]
            /\ pc' = [pc EXCEPT ![p] = "rd_block"]
            /\ outcome' = [outcome EXCEPT ![p] = "opened"]
            /\ UNCHANGED sleeps
       ELSE /\ sleeps' = [sleeps EXCEPT ![p] = @ + 1]
            /\ pc' = [pc EXCEPT ![p] = "rd_loop"]
            /\ UNCHANGED << ret, outcome >>
    /\ UNCHANGED << lock, target, tmp, now, args, attempt, result, held, wrote, prior,
                    lock0, src, src0 >>

\* read_atomic: `return f.read()`, then __exit__ closes the stream
RdRead(p) ==
    /\ pc[p] = "rd_block"
    /\ ret' = [ret EXCEPT ![p] = [kind |-> "text", text |-> ReadText(@.data)]]
    /\ pc' = [pc EXCEPT ![p] = "idle"]
    /\ outcome' = [outcome EXCEPT ![p] = "ok"]
    /\ UNCHANGED << lock, target, tmp, now, args, attempt, sleeps, result, held,
                    wrote, prior, lock0, src, src0 >>

ReadStep(p) == RdLoop(p) \/ RdOpen(p) \/ RdRead(p)

\* ------------------------------------------------------------ _move_atomic
\* The destination of a move is the target path; the source is another path.
MoveArgs(force) == [NoArgs EXCEPT !.kind = "move", !.force = force]

\* a caller calls move_atomic(src, dst, force) or move_atomic_force(src, dst)
move_atomic(p, force) ==
    /\ BeginCall(p, MoveArgs(force), "move_check")
    /\ src0' = src
    /\ ret' = [ret EXCEPT ![p] = NoRet]
    /\ UNCHANGED << lock, target, tmp, now, held, src >>

\* MoveCheck, were an existing destination never a reason to refuse
MoveCheck_Overwrites(p, statok) ==
    /\ pc[p] = "move_check"
    /\ pc' = [pc EXCEPT ![p] = "move_replace"]
    /\ src' = IF target.exists /\ src.exists THEN CopiedStat(src, target, statok) ELSE src
    /\ UNCHANGED << lock, target, tmp, now, args, attempt, sleeps, result, outcome,
                    held, wrote, prior, lock0, src0, ret >>

\* `if os.path.exists(dst):`, `if not force: raise FileExistsError(...)`,
\* else shutil.copystat(dst, src), whose failure is printed and ignored
MoveCheck(p, statok) ==
    /\ pc[p] = "move_check"
    /\ IF target.exists /\ ~args[p].force
       THEN /\ pc' = [pc EXCEPT ![p] = "idle"]
            /\ outcome' = [outcome EXCEPT ![p] = "destination_exists"]
            /\ UNCHANGED src
       ELSE /\ pc' = [pc EXCEPT ![p] = "move_replace"]
            /\ src' = IF target.exists /\ src.exists
                      THEN CopiedStat(src, target, statok) ELSE src
            /\ UNCHANGED outcome
    /\ UNCHANGED << lock, target, tmp, now, args, attempt, sleeps, result, held,
                    wrote, prior, lock0, src0, ret >>

\* `os.replace(src, dst)`; FileNotFoundError when there is no source file
MoveReplace(p) ==
    /\ pc[p] = "move_replace"
    /\ IF src.exists
       THEN /\ target' = Replaced(src, target)
            /\ src' = NoFile
            /\ outcome' = [outcome EXCEPT ![p] = "ok"]
       ELSE /\ outcome' = [outcome EXCEPT ![p] = "raised"]
            /\ UNCHANGED << target, src >>
    /\ pc' = [pc EXCEPT ![p] = "idle"]
    /\ UNCHANGED << lock, tmp, now, args, attempt, sleeps, result, held, wrote,
                    prior, lock0, src0, ret >>

MoveStep(p) ==
    \/ \E statok \in BOOLEAN : MoveCheck(p, statok)
    \/ MoveReplace(p)

\* ------------------------------------------------- one caller at a time
\* One process, the Caller, makes library calls one after another; the other
\* running process makes none.  The lock file the Caller meets first is any
\* of InitLocks: none, an empty one, the record of a dead owner, or the
\* record of a running owner (the other process, or the Caller itself), and
\* it is new or MaxAge time units old.
Caller == 1
CallerLabel == 1

\* the Caller uses the lock functions directly
NextLock ==
    \/ \E r \in 0..MaxRetries, s \in {NoSession, CallerLabel}, f \in BOOLEAN :
           try_acquire_lock(Caller, r, s, f)
    \/ AcquireStep(Caller)
    \/ release_lock(Caller)
    \/ ReleaseStep(Caller)
    \/ get_lock_age(Caller)
    \/ \E a \in 0..MaxAge : is_stale_lock(Caller, a)
    \/ \E a \in 0..MaxAge : release_stale_lock(Caller, a)
    \/ StaleStep(Caller)
    \/ Tick

SpecLock == InitWith(InitLocks) /\ [][NextLock]_vars

\* the Caller opens write sessions, one after another
NextSession ==
    \/ \E r \in 0..MaxRetries, f, sim \in BOOLEAN, c \in ContentsOf(Caller) :
           AtomicWriter(Caller, r, CallerLabel, f, sim, c)
    \/ AcquireStep(Caller)
    \/ SessionStep(Caller)

SpecSession == InitWith(InitLocks) /\ [][NextSession]_vars

\* ------------------------------------------------- concurrent writers
\* Every process opens one non-simulated write session and writes MaxChunks
\* chunks; the temp file always opens and no block raises; the steps of the
\* sessions of different processes interleave freely.
NextWriters ==
    \E p \in Procs :
        \/ \E f \in BOOLEAN :
               /\ args[p].kind = "none"
               /\ AtomicWriter(p, MaxRetries, p, f, FALSE, [i \in 1..MaxChunks |-> p])
        \/ AcquireStep(p)
        \/ EnterOpen(p, TRUE, FALSE)
        \/ BlockWrite(p)
        \/ BlockEnd(p, FALSE)
        \/ \E statok \in BOOLEAN : ExitStat(p, statok)
        \/ ExitReplace(p)
        \/ ExitRelCheck(p)
        \/ ExitRelRemove(p)

SpecWriters == InitWith(InitLocks) /\ [][NextWriters]_vars

\* --------------------------------------------------- mutual exclusion (C1)
\* Every process is alive, calls try_acquire_lock without force and with
\* retries >= 1, and releases only a lock it acquired; no lock file at first.
NextMutex ==
    \E p \in Procs :
        \/ \E r \in 1..MaxRetries : try_acquire_lock(p, r, p, FALSE)
        \/ AcquireStep(p)
        \/ held[p] /\ release_lock(p)
        \/ ReleaseStep(p)

SpecMutex == InitWith({NoFile}) /\ [][NextMutex]_vars

\* ------------------------------------------- reclaiming an abandoned lock
\* As under SpecMutex, but the lock file at first is the record of a dead
\* owner: the running processes reclaim it concurrently.
DeadLocks ==
    { File(lock_render(DeadPid, session_to_hash(OwnerLabel), StampOf(t)), NewMeta,
           DeadPid, t) : t \in {0, MaxAge} }

SpecReclaim == InitWith(DeadLocks) /\ [][NextMutex]_vars

\* ------------------------------------------------ a call among other calls
\* The Caller calls try_acquire_lock with any retries and with or without
\* force, and releases what it acquired; the other process, meanwhile, takes
\* the lock by force and releases it, again and again.  The lock file at
\* first is any of InitLocks.
Other == 2

NextContend ==
    \/ \E r \in 0..MaxRetries, f \in BOOLEAN : try_acquire_lock(Caller, r, CallerLabel, f)
    \/ AcquireStep(Caller)
    \/ held[Caller] /\ release_lock(Caller)
    \/ ReleaseStep(Caller)
    \/ try_acquire_lock(Other, MaxRetries, OwnerLabel, TRUE)
    \/ AcquireStep(Other)
    \/ release_lock(Other)
    \/ ReleaseStep(Other)

SpecContend == InitFrom(InitLocks, {NoFile}, {NoFile}) /\ [][NextContend]_vars

\* a call that has begun keeps running: the Caller's process is scheduled
SpecContendFair == SpecContend /\ WF_vars(AcquireStep(Caller))

\* ------------------------------------------------------ a reader and a writer
\* The Caller opens read sessions with any retries, with and without
\* require_lock, and reads; the other process, meanwhile, opens write
\* sessions of MaxChunks chunks, with and without force, one after another.
\* At first the lock file is any of InitLocks and the target may be missing.
NextReader ==
    \/ \E r \in 0..MaxRetries, rl \in BOOLEAN : AtomicReader(Caller, r, rl)
    \/ ReadStep(Caller)
    \/ \E f \in BOOLEAN :
           AtomicWriter(Other, MaxRetries, OwnerLabel, f, FALSE, [i \in 1..MaxChunks |-> Other])
    \/ AcquireStep(Other)
    \/ EnterOpen(Other, TRUE, FALSE)
    \/ BlockWrite(Other)
    \/ BlockEnd(Other, FALSE)
    \/ \E statok \in BOOLEAN : ExitStat(Other, statok)
    \/ ExitReplace(Other)
    \/ ExitRelCheck(Other)
    \/ ExitRelRemove(Other)

SpecReader == InitWith(InitLocks) /\ [][NextReader]_vars

\* ------------------------------------------------- a session taken over
\* The Caller opens one write session without force; while its block is
\* running the other process opens one with force; both write MaxChunks
\* chunks, the temp files open and no block raises.  After its session,
\* while the other's block is running, the Caller calls try_acquire_lock
\* without force.  No lock file at first.
NextTakeover ==
    \/ /\ args[Caller].kind = "none"
       /\ AtomicWriter(Caller, MaxRetries, CallerLabel, FALSE, FALSE,
                       [i \in 1..MaxChunks |-> Caller])
    \/ /\ args[Other].kind = "none"
       /\ pc[Caller] = "block"
       /\ AtomicWriter(Other, MaxRetries, OwnerLabel, TRUE, FALSE,
                       [i \in 1..MaxChunks |-> Other])
    \/ \E r \in 1..MaxRetries :
           /\ args[Caller].kind = "session"
           /\ pc[Other] = "block"
           /\ try_acquire_lock(Caller, r, CallerLabel, FALSE)
    \/ \E p \in Procs :
           \/ AcquireStep(p)
           \/ EnterOpen(p, TRUE, FALSE)
           \/ BlockWrite(p)
           \/ BlockEnd(p, FALSE)
           \/ \E statok \in BOOLEAN : ExitStat(p, statok)
           \/ ExitReplace(p)
           \/ ExitRelCheck(p)
           \/ ExitRelRemove(p)

SpecTakeover == InitWith({NoFile}) /\ [][NextTakeover]_vars

\* ------------------------------------------------------------------ moves
\* The Caller moves the source file onto the target path, with and without
\* force; either file may be missing at first, and either holds any content
\* of up to MaxChunks chunks, with old or new metadata.
MoveFiles ==
    {NoFile} \cup { File(d, m, 0, 0) : d \in UNION { ContentsOf(q) : q \in Procs },
                                       m \in {OldMeta, NewMeta} }

NextMove ==
    \/ \E f \in BOOLEAN : move_atomic(Caller, f)
    \/ MoveStep(Caller)

SpecMove == InitFrom({NoFile}, MoveFiles, MoveFiles) /\ [][NextMove]_vars

\* the positions of a try_acquire_lock call inside inspect_lock
InInspect == {"acq_inspect", "acq_insp_open", "acq_insp_read"}

\* C1: at no moment do two processes both hold the lock (try_acquire_lock
\* returned True to each and neither has released since).
C1_MutualExclusion ==
    \A p, q \in Procs : held[p] /\ held[q] => p = q

\* -------------------------------------------------------- the properties
Holds(f, data) == f.exists /\ f.data = data
IsSession(p) == args[p].kind = "session"
IsWriting(p) == IsSession(p) /\ ~args[p].simulate
IsSimulating(p) == IsSession(p) /\ args[p].simulate
\* the session of p went through the whole of __exit__
Closed(p) == pc[p] = "idle" /\ outcome[p] \in {"ok", "block_error"}
\* the lock file holds a fully written record whose owner is running
LiveOwned(f) == inspect_lock(f).alive
\* the lock file holds the record of an owner that is not running
DeadOwned(f) ==
    LET info == inspect_lock(f) IN
    info.exists /\ ~info.corrupt /\ info.pid # PyNone /\ ~info.alive

\* C2: with concurrent writers whose blocks all complete, the target is at
\* every moment either as it was at the start or the complete content of one
\* session that has reached the rename of its close; no write of a block and
\* no other step before the rename shows in it.
C2_TargetAlwaysWhole ==
    \/ target \in InitTargets
    \/ \E p \in Procs :
          /\ IsWriting(p)
          /\ pc[p] \in {"exit_rel_check", "exit_rel_remove", "idle"}
          /\ wrote[p] = Len(args[p].intended)
          /\ Holds(target, args[p].intended)

\* C2's case: the target holds the whole content of one writer while the
\* other writer has staged a part of its own
C2_Witness ==
    \E p, q \in Procs :
        /\ p # q
        /\ Holds(target, args[p].intended)
        /\ pc[q] = "block"
        /\ wrote[q] > 0
        /\ wrote[q] < Len(args[q].intended)
        /\ Holds(tmp[q], SubSeq(args[q].intended, 1, wrote[q]))

\* C3: after a non-simulated write session has closed, on every exit path,
\* the target holds its prior state or the complete content the caller
\* intended, never a part of it.
C3_NeverTruncated ==
    \A p \in Procs :
        IsWriting(p) /\ Closed(p)
        => target = prior[p] \/ Holds(target, args[p].intended)

\* C4: when the open of a write session fails (lock not acquired, or temp
\* file not opened), no lock file created by the session remains, no temp
\* file of the session exists and the target is as it was.
C4_OpenAllOrNothing ==
    \A p \in Procs :
        IsSession(p) /\ pc[p] = "idle" /\ outcome[p] \in {"lock_unavailable", "open_failed"}
        => /\ ~(result[p] = "true" /\ lock.exists /\ lock.ino = p)
           /\ ~tmp[p].exists
           /\ target = prior[p]

\* C5: after a non-simulated write session that opened is closed, normally
\* or by an error of the block, the lock file and the session's temp file
\* are absent; and a write session with force=false and retries >= 1 that
\* begins with the lock file absent, as it is after such a close, acquires
\* the lock, and when its block completes its content is the target's.
C5_ReleasedAndCleaned ==
    \A p \in Procs :
        /\ IsWriting(p) /\ Closed(p) => ~lock.exists /\ ~tmp[p].exists
        /\ IsWriting(p) /\ ~args[p].force /\ args[p].retries >= 1 /\ ~lock0[p].exists
           => /\ outcome[p] # "lock_unavailable"
              /\ pc[p] \notin {"idle", "acq_loop", "acq_create", "acq_write"}
                 => result[p] = "true"
              /\ Closed(p) /\ outcome[p] = "ok" => Holds(target, args[p].intended)

\* C5's case: a session with force=false has closed normally over the
\* content an earlier session of the same caller had put in the target
C5_Witness ==
    \E p \in Procs :
        /\ IsWriting(p) /\ Closed(p) /\ outcome[p] = "ok"
        /\ ~args[p].force
        /\ Holds(prior[p], << p >>)
        /\ Holds(target, << p, p >>)
        /\ ~lock.exists /\ ~tmp[p].exists

\* C6: against a lock file that records a running owner, whatever its age,
\* try_acquire_lock with force=false makes at most `retries` attempts, never
\* changes the lock file and returns False; the write session that called
\* it fails with the lock-unavailable error with nothing written, no temp
\* file and the target as it was.
C6_LiveHolderWins ==
    \A p \in Procs :
        IsWriting(p) /\ ~args[p].force /\ LiveOwned(lock0[p])
        => /\ lock = lock0[p]
           /\ attempt[p] <= args[p].retries
           /\ result[p] # "true"
           /\ pc[p] \in {"idle", "acq_loop"} \cup InInspect
           /\ pc[p] = "idle"
              => /\ result[p] = "false"
                 /\ attempt[p] = args[p].retries
                 /\ outcome[p] = "lock_unavailable"
                 /\ wrote[p] = 0
                 /\ ~tmp[p].exists
                 /\ target = prior[p]

\* C6's case: the call gave up after MaxRetries attempts against the
\* MaxAge old lock of the other running process
C6_Witness ==
    \E p \in Procs :
        /\ IsWriting(p) /\ ~args[p].force /\ pc[p] = "idle"
        /\ args[p].retries = MaxRetries
        /\ outcome[p] = "lock_unavailable"
        /\ inspect_lock(lock).pid \in Procs \ {p}
        /\ now - lock.ctime = MaxAge

\* C7: try_acquire_lock with force=true and retries >= 1 returns True, and
\* an inspect_lock made right after reports the caller's process id and the
\* fingerprint of the caller's session label.
C7_ForceAlwaysAcquires ==
    \A p \in Procs :
        args[p].kind = "acquire" /\ pc[p] = "idle" /\ args[p].force /\ args[p].retries >= 1
        => /\ result[p] = "true"
           /\ inspect_lock(lock).exists
           /\ inspect_lock(lock).pid = p
           /\ inspect_lock(lock).session_hash = session_to_hash(args[p].session)

\* C8: try_acquire_lock with force=false and retries >= 1 that finds the
\* lock of an owner that is not running returns True without having slept,
\* and the lock file then records the caller.
C8_DeadOwnerReclaimed ==
    \A p \in Procs :
        /\ args[p].kind = "acquire" /\ pc[p] = "idle"
        /\ ~args[p].force /\ args[p].retries >= 1 /\ DeadOwned(lock0[p])
        => /\ result[p] = "true"
           /\ sleeps[p] = 0
           /\ inspect_lock(lock).pid = p

\* C9: while a simulated write session is open, its caller holds the lock
\* its open acquired through try_acquire_lock.
C9_SimulateHoldsLock ==
    \A p \in Procs :
        IsSimulating(p) /\ args[p].retries >= 1 /\ pc[p] = "block"
        => result[p] = "true" /\ inspect_lock(lock).pid = p

\* C10: during and after a simulated write session, whatever is written
\* and however the block ends, the target is as it was at the open and the
\* session's temp file was never created.
C10_SimulateLeavesTarget ==
    \A p \in Procs :
        IsSimulating(p) => target = prior[p] /\ tmp[p] = NoFile

\* C10's case: a simulated session wrote MaxChunks chunks, its block then
\* raised, and it closed over an existing target
C10_Witness ==
    \E p \in Procs :
        /\ IsSimulating(p) /\ pc[p] = "idle" /\ outcome[p] = "block_error"
        /\ wrote[p] = MaxChunks
        /\ target.exists

\* -------------------------------------------------------------- round trip
\* The Caller writes a text with write_atomic and reads the target with
\* read_atomic, both with their default arguments, as test_atomic_write_read
\* does; the temp file always opens and the write does not fail.  A text is
\* up to MaxChunks characters, each an ordinary character, "\n" or "\r".
DEFAULT_RETRIES == 5
Texts(p) == UNION { [1..n -> {p, LF, CR}] : n \in 0..MaxChunks }

write_atomic(p, data) == AtomicWriter(p, DEFAULT_RETRIES, NoSession, FALSE, FALSE, data)
read_atomic(p) == AtomicReader(p, DEFAULT_RETRIES, FALSE)

NextRoundTrip ==
    \/ \E c \in Texts(Caller) : write_atomic(Caller, c)
    \/ read_atomic(Caller)
    \/ AcquireStep(Caller)
    \/ EnterOpen(Caller, TRUE, FALSE)
    \/ BlockWrite(Caller)
    \/ BlockEnd(Caller, FALSE)
    \/ \E statok \in BOOLEAN : ExitStat(Caller, statok)
    \/ ExitReplace(Caller)
    \/ ExitRelCheck(Caller)
    \/ ExitRelRemove(Caller)
    \/ ReadStep(Caller)

SpecRoundTrip == InitWith(InitLocks) /\ [][NextRoundTrip]_vars

\* ------------------------------------------------------- lock file contents
\* The lock file the Caller finds holds anything: one to MaxFields fields
\* between separators, each the pid of the Caller or of a dead process, the
\* empty text, a word or a digest.  The Caller inspects it, and acquires the
\* lock without force.
MaxFields == 3
FieldValues == {Caller, DeadPid, EmptyStr, Word, HashOf(OwnerLabel)}
RawLocks ==
    {NoFile} \cup { File(d, NewMeta, 0, 0) :
                      d \in UNION { [1..n -> FieldValues] : n \in 1..MaxFields } }

NextInspect ==
    \/ InspectQuery(Caller)
    \/ InspectStep(Caller)
    \/ \E r \in 0..MaxRetries : try_acquire_lock(Caller, r, CallerLabel, FALSE)
    \/ AcquireStep(Caller)

SpecInspect == InitFrom(RawLocks, {NoFile}, {NoFile}) /\ [][NextInspect]_vars

\* ------------------------------------------------- writes that take no lock
\* pickle.dump(data, f) frames the value between a protocol mark and a stop
\* mark; the stream is binary, so no character of the value is translated
PickleProto == 128
PickleStop == 46
Pickled(value) == << PickleProto >> \o value \o << PickleStop >>
IsPickle(data) ==
    Len(data) >= 2 /\ data[1] = PickleProto /\ data[Len(data)] = PickleStop
\* pickle.load of the bytes of a pickle
Unpickled(data) == SubSeq(data, 2, Len(data) - 1)

PickleArgs(kind, data) == [NoArgs EXCEPT !.kind = kind, !.intended = data]

\* a caller calls atomic_pickle_write(path, data); `tmp_path = get_tmp_path(path)`
atomic_pickle_write(p, data) ==
    /\ BeginCall(p, PickleArgs("pickle_write", data), "pk_open")
    /\ tmp' = [tmp EXCEPT ![p] = NoFile]
    /\ ret' = [ret EXCEPT ![p] = NoRet]
    /\ UNCHANGED << lock, target, now, held, src, src0 >>

\* `with open_atomic(tmp_path, "wb") as f:`; the open may fail (name too
\* long, no descriptor left), and then no temp file is made
PkOpen(p, ok) ==
    /\ pc[p] = "pk_open"
    /\ tmp' = [tmp EXCEPT ![p] = IF ok THEN File(<< >>, NewMeta, p, now) ELSE @]
    /\ pc' = [pc EXCEPT ![p] = IF ok THEN "pk_dump" ELSE "idle"]
    /\ outcome' = [outcome EXCEPT ![p] = IF ok THEN @ ELSE "raised"]
    /\ UNCHANGED << lock, target, now, args, attempt, sleeps, result, held, wrote,
                    prior, lock0 >>
    /\ UNCHANGED aux

\* `pickle.dump(data, f)` and the close of the stream; a value that cannot be
\* pickled raises after `kept` bytes of the pickle reached the file, none or
\* some but never all of them, and the temp file stays
PkDump(p, ok, kept) ==
    /\ pc[p] = "pk_dump"
    /\ kept < Len(Pickled(args[p].intended))
    /\ tmp' = [tmp EXCEPT ![p].data =
                  IF ok THEN Pickled(args[p].intended)
                  ELSE SubSeq(Pickled(args[p].intended), 1, kept)]
    /\ pc' = [pc EXCEPT ![p] = IF ok THEN "pk_stat" ELSE "idle"]
    /\ outcome' = [outcome EXCEPT ![p] = IF ok THEN @ ELSE "raised"]
    /\ UNCHANGED << lock, target, now, args, attempt, sleeps, result, held, wrote,
                    prior, lock0 >>
    /\ UNCHANGED aux

\* `if os.path.exists(path): shutil.copystat(path, tmp_path)`; a failure is
\* printed and ignored
PkStat(p, statok) ==
    /\ pc[p] = "pk_stat"
    /\ tmp' = [tmp EXCEPT ![p] = IF target.exists THEN CopiedStat(@, target, statok)
                                 ELSE @]
    /\ pc' = [pc EXCEPT ![p] = "pk_replace"]
    /\ UNCHANGED << lock, target, now, args, attempt, sleeps, result, outcome, held,
                    wrote, prior, lock0 >>
    /\ UNCHANGED aux

\* `os.replace(tmp_path, path)`: the lock file is never looked at
PkReplace(p) ==
    /\ pc[p] = "pk_replace"
    /\ target' = Replaced(tmp[p], target)
    /\ tmp' = [tmp EXCEPT ![p] = NoFile]
    /\ outcome' = [outcome EXCEPT ![p] = "ok"]
    /\ pc' = [pc EXCEPT ![p] = "idle"]
    /\ UNCHANGED << lock, now, args, attempt, sleeps, result, held, wrote, prior,
                    lock0 >>
    /\ UNCHANGED aux

\* a caller calls atomic_pickle_read(path); the call made before it and how it
\* went are kept, for a read that follows a write
atomic_pickle_read(p) ==
    /\ BeginCall(p, [PickleArgs("pickle_read", args[p].intended) EXCEPT
                        !.after = IF args[p].kind = "pickle_write" THEN outcome[p]
                                  ELSE "none"],
                 "pk_load")
    /\ ret' = [ret EXCEPT ![p] = NoRet]
    /\ UNCHANGED << lock, target, tmp, now, held, src, src0 >>

\* `with open_atomic(path, "rb") as f: return pickle.load(f)`: FileNotFoundError
\* without a target, EOFError or UnpicklingError when it holds no pickle
PkLoad(p) ==
    /\ pc[p] = "pk_load"
    /\ IF target.exists /\ IsPickle(target.data)
       THEN /\ ret' = [ret EXCEPT ![p] = [kind |-> "value",
                                          value |-> Unpickled(target.data)]]
            /\ outcome' = [outcome EXCEPT ![p] = "ok"]
       ELSE /\ outcome' = [outcome EXCEPT ![p] = "raised"]
            /\ UNCHANGED ret
    /\ pc' = [pc EXCEPT ![p] = "idle"]
    /\ UNCHANGED << lock, target, tmp, now, args, attempt, sleeps, result, held,
                    wrote, prior, lock0, src, src0 >>

PickleStep(p) ==
    \/ \E ok \in BOOLEAN : PkOpen(p, ok)
    \/ \E ok \in BOOLEAN, kept \in 0..(MaxChunks + 1) : PkDump(p, ok, kept)
    \/ \E statok \in BOOLEAN : PkStat(p, statok)
    \/ PkReplace(p)
    \/ PkLoad(p)

\* a caller calls open_atomic(path, "w") and writes data through the stream
open_atomic(p, data) ==
    /\ BeginCall(p, PickleArgs("open_w", data), "direct_open")
    /\ ret' = [ret EXCEPT ![p] = NoRet]
    /\ UNCHANGED << lock, target, tmp, now, held, src, src0 >>

\* what a change of a file's content leaves of its metadata: the mode stays,
\* the modification time is new
MixedMeta == "mixed"
Touched(meta) == IF meta = OldMeta THEN MixedMeta ELSE meta

\* `open(path, mode, encoding=encoding)` with mode "w": the target is created
\* or emptied where it is; the stream starts with an empty buffer
DirectOpen(p) ==
    /\ pc[p] = "direct_open"
    /\ target' = IF target.exists
                 THEN [target EXCEPT !.data = << >>, !.meta = Touched(@)]
                 ELSE File(<< >>, NewMeta, 0, 0)
    /\ ret' = [ret EXCEPT ![p] = [kind |-> "stream", buffer |-> << >>]]
    /\ pc' = [pc EXCEPT ![p] = "direct_block"]
    /\ UNCHANGED << lock, tmp, now, args, attempt, sleeps, result, outcome, held,
                    wrote, prior, lock0, src, src0 >>

\* one f.write(chunk), of a text shorter than the stream's buffer: the text
\* stays in the buffer and the file is as it was
DirectWrite(p) ==
    /\ pc[p] = "direct_block"
    /\ wrote[p] < Len(args[p].intended)
    /\ wrote' = [wrote EXCEPT ![p] = @ + 1]
    /\ ret' = [ret EXCEPT ![p].buffer = @ \o WrittenText(args[p].intended[wrote[p] + 1])]
    /\ UNCHANGED << lock, target, tmp, now, pc, args, attempt, sleeps, result,
                    outcome, held, prior, lock0, src, src0 >>

\* f.close() after the last write: the buffer is written to the file
DirectClose(p) ==
    /\ pc[p] = "direct_block"
    /\ wrote[p] = Len(args[p].intended)
    /\ target' = IF ret[p].buffer = << >> \/ ~target.exists THEN target
                 ELSE [target EXCEPT !.data = @ \o ret[p].buffer, !.meta = Touched(@)]
    /\ ret' = [ret EXCEPT ![p] = NoRet]
    /\ outcome' = [outcome EXCEPT ![p] = "ok"]
    /\ pc' = [pc EXCEPT ![p] = "idle"]
    /\ UNCHANGED << lock, tmp, now, args, attempt, sleeps, result, held,
                    wrote, prior, lock0, src, src0 >>

DirectStep(p) == DirectOpen(p) \/ DirectWrite(p) \/ DirectClose(p)

\* The Caller writes and reads pickles, as test_atomic_pickle does, and
\* writes through open_atomic, whatever lock file there is.
NextUnlocked ==
    \/ \E c \in Texts(Caller) : atomic_pickle_write(Caller, c)
    \/ atomic_pickle_read(Caller)
    \/ PickleStep(Caller)
    \/ \E c \in Texts(Caller) : open_atomic(Caller, c)
    \/ DirectStep(Caller)

SpecUnlocked == InitWith(InitLocks) /\ [][NextUnlocked]_vars

\* ---------------------------------------------------- queries under a race
\* The Caller asks about the lock (inspect_lock, get_lock_age, is_stale_lock)
\* while the Other takes and releases it, and time passes.
NextQueryRace ==
    \/ InspectQuery(Caller)
    \/ InspectStep(Caller)
    \/ get_lock_age(Caller)
    \/ \E a \in 0..MaxAge : is_stale_lock(Caller, a)
    \/ StaleStep(Caller)
    \/ \E r \in 1..MaxRetries : try_acquire_lock(Other, r, NoSession, FALSE)
    \/ AcquireStep(Other)
    \/ release_lock(Other)
    \/ ReleaseStep(Other)
    \/ Tick

SpecQueryRace == InitFrom(InitLocks, {NoFile}, {NoFile}) /\ [][NextQueryRace]_vars

\* C11: a finished move of an existing source file either was refused with
\* the destination-exists error, exactly when the destination existed and
\* force was false, leaving both files as they were; or it succeeded, and
\* then the destination holds the source's prior content and the source
\* path no longer exists.
IsMove(p) == args[p].kind = "move"

C11_MoveSemantics ==
    \A p \in Procs :
        IsMove(p) /\ pc[p] = "idle" /\ src0.exists =>
            IF prior[p].exists /\ ~args[p].force
            THEN /\ outcome[p] = "destination_exists"
                 /\ src = src0
                 /\ target = prior[p]
            ELSE /\ outcome[p] = "ok"
                 /\ Holds(target, src0.data)
                 /\ ~src.exists

\* a forced move has replaced a destination that held something else
C11_Witness ==
    /\ IsMove(Caller) /\ pc[Caller] = "idle" /\ args[Caller].force
    /\ src0.exists /\ prior[Caller].exists /\ prior[Caller].data # src0.data
    /\ outcome[Caller] = "ok" /\ Holds(target, src0.data) /\ ~src.exists

\* C12: a read_atomic that follows a write_atomic(path, c) that completed
\* returns exactly c.
IsRead(p) == args[p].kind = "read"

C12_RoundTrip ==
    \A p \in Procs :
        IsRead(p) /\ args[p].after = "ok" /\ pc[p] = "idle" =>
            /\ outcome[p] = "ok"
            /\ ret[p].kind = "text"
            /\ ret[p].text = args[p].intended

\* C13: is_stale_lock answers true exactly when a lock file exists and is
\* older than max_age at the time the call reads the clock; a finished
\* release_stale_lock has removed the lock file if it was that old, whoever
\* its record names, and has otherwise left the lock file as it was.
OlderThan(f, max_age, at) == f.exists /\ at - f.ctime > max_age

C13_StaleByAgeOnly ==
    \A p \in Procs :
        /\ args[p].kind = "is_stale" /\ pc[p] = "idle" /\ result[p] # "raised" =>
               ret[p].value = OlderThan(lock, args[p].max_age, ret[p].at)
        /\ args[p].kind = "release_stale" /\ pc[p] = "idle" /\ result[p] # "raised" =>
               IF OlderThan(lock0[p], args[p].max_age, ret[p].at)
               THEN ~lock.exists
               ELSE lock = lock0[p]

\* release_stale_lock has removed the lock file of a running owner, which was
\* no older than max_age when the clock was first looked at
C13_Witness ==
    /\ args[Caller].kind = "release_stale" /\ pc[Caller] = "idle"
    /\ OlderThan(lock0[Caller], args[Caller].max_age, ret[Caller].at)
    /\ lock0[Caller].ctime = MaxAge /\ args[Caller].max_age = MaxAge
    /\ LiveOwned(lock0[Caller]) /\ inspect_lock(lock0[Caller]).pid # Caller
    /\ ~lock.exists

\* C14: inspect_lock reports exists=false for a missing lock file; for a lock
\* file whose owner-id field is not a number, or that has no separator, it
\* reports exists, corrupt, and no owner, liveness, fingerprint or timestamp;
\* for a well-formed record it reports corrupt=false with the recorded owner,
\* whether that owner runs, the fingerprint and the timestamp.
Unparseable(f) == f.exists /\ (~IsDigit(f.data[1]) \/ Len(f.data) < 2)

NoneIfEmpty(field) == IF field = EmptyStr THEN PyNone ELSE field

C14_InspectClassifies ==
    \A p \in Procs :
        args[p].kind = "inspect" /\ pc[p] = "idle" =>
            LET info == ret[p].info IN
            IF ~lock.exists
            THEN ~info.exists
            ELSE IF Unparseable(lock)
            THEN /\ info.exists /\ info.corrupt
                 /\ info.pid = PyNone /\ ~info.alive
                 /\ info.session_hash = PyNone /\ info.timestamp = PyNone
            ELSE /\ info.exists /\ ~info.corrupt
                 /\ info.pid = lock.data[1]
                 /\ info.alive = (lock.data[1] \in AlivePids)
                 /\ info.session_hash = NoneIfEmpty(lock.data[2])
                 /\ info.timestamp = IF Len(lock.data) > 2 THEN lock.data[3] ELSE PyNone

\* C15: a finished release_lock leaves no lock file, whatever the lock file
\* held when the call began and also when there was none (so a second call
\* in a row changes nothing more); it raises no error and leaves the target
\* and the temp files as they were.
IsRelease(p) == args[p].kind = "release"

C15_ReleaseUnconditional ==
    \A p \in Procs :
        IsRelease(p) /\ pc[p] = "idle" =>
            /\ lock = NoFile
            /\ result[p] # "raised"
            /\ target = prior[p]
            /\ tmp = [q \in Procs |-> NoFile]

\* release_lock has deleted the lock file of another, running owner
C15_Witness ==
    /\ IsRelease(Caller) /\ pc[Caller] = "idle"
    /\ LiveOwned(lock0[Caller]) /\ inspect_lock(lock0[Caller]).pid # Caller
    /\ lock = NoFile

\* C16: while running processes reclaim a dead owner's lock concurrently, at
\* most one of them holds the lock at any moment, and no call ends with the
\* error of a deletion that found the lock file gone.
C16_ReclaimResolvesSafely ==
    \A p, q \in Procs :
        /\ held[p] /\ held[q] => p = q
        /\ result[p] # "raised"

\* C17: whatever the other process does, a try_acquire_lock call starts at
\* most `retries` attempts and sleeps at most once per attempt, not at all in
\* an attempt that creates the lock file or deletes one; it returns false
\* only with all attempts used up, which with retries = 0 is at once and
\* without a change to the lock file; and the call ends.
IsAcquire(p) == args[p].kind = "acquire"
MidAttempt(p) ==
    pc[p] \in {"acq_create", "acq_write", "acq_del_check", "acq_del_remove"} \cup InInspect

C17_Counted ==
    \A p \in Procs :
        IsAcquire(p) =>
            /\ attempt[p] <= args[p].retries
            /\ sleeps[p] <= attempt[p]
            /\ MidAttempt(p) \/ result[p] = "true" => sleeps[p] < attempt[p]
            /\ result[p] = "false" => attempt[p] = args[p].retries
            /\ args[p].retries = 0 /\ pc[p] = "idle" =>
                   result[p] = "false" /\ sleeps[p] = 0

C17_NoSleepStep ==
    \A p \in Procs :
        IsAcquire(p) =>
            /\ pc[p] \in {"acq_write", "acq_del_check", "acq_del_remove"} =>
                   sleeps'[p] = sleeps[p]
            /\ pc[p] = "acq_loop" /\ pc'[p] = "idle" /\ args[p].retries = 0 =>
                   lock' = lock

C17_Bounded ==
    /\ [] C17_Counted
    /\ [][C17_NoSleepStep]_vars
    /\ (IsAcquire(Caller) /\ pc[Caller] # "idle") ~> (pc[Caller] = "idle")

\* a call has slept in every attempt but its last, and acquired in that one
C17_Witness ==
    /\ IsAcquire(Caller) /\ pc[Caller] = "idle" /\ result[Caller] = "true"
    /\ attempt[Caller] = args[Caller].retries
    /\ sleeps[Caller] >= 1 /\ sleeps[Caller] = attempt[Caller] - 1

\* C18: the open of a read session starts at most `retries` attempts and has
\* slept once for every attempt that failed; with require_lock, an attempt
\* that finds the lock file does not go on to open the target; an open of
\* the target that finds it returns the stream of that file, one that finds
\* it missing is retried; and the open fails, with no stream, only after
\* `retries` failed attempts.
C18_Counted ==
    \A p \in Procs :
        IsRead(p) =>
            /\ attempt[p] <= args[p].retries
            /\ pc[p] = "rd_loop" => sleeps[p] = attempt[p]
            /\ pc[p] = "rd_open" => sleeps[p] = attempt[p] - 1
            /\ outcome[p] \in {"opened", "ok"} =>
                   sleeps[p] = attempt[p] - 1 /\ ret[p] # NoRet
            /\ outcome[p] = "read_failed" =>
                   /\ attempt[p] = args[p].retries
                   /\ sleeps[p] = args[p].retries
                   /\ ret[p] = NoRet

C18_AttemptStep ==
    \A p \in Procs :
        IsRead(p) =>
            /\ pc[p] = "rd_loop" /\ args[p].require_lock /\ lock.exists =>
                   pc'[p] # "rd_open" /\ ret'[p] = NoRet
            /\ pc[p] = "rd_open" /\ pc'[p] # "rd_open" =>
                   IF target.exists
                   THEN pc'[p] = "rd_block" /\ ret'[p] = Stream(target)
                   ELSE pc'[p] = "rd_loop" /\ ret'[p] = NoRet

C18_ReadSessionOpen ==
    /\ [] C18_Counted
    /\ [][C18_AttemptStep]_vars

\* a read session with require_lock has slept while the target was there,
\* and a later attempt has opened it
C18_Witness ==
    /\ IsRead(Caller) /\ args[Caller].require_lock /\ prior[Caller].exists
    /\ outcome[Caller] = "opened" /\ sleeps[Caller] >= 1

\* C19: with no lock file at the call, try_acquire_lock with retries >= 1
\* returns true in its first attempt without a sleep, and inspect_lock then
\* reports an existing lock that is not corrupt, the caller's pid, alive, and
\* the fingerprint of the session label, None when there was no label; after
\* release_lock, is_locked is false and inspect_lock reports exists=false.
FingerprintOf(session) == IF session = NoSession THEN PyNone ELSE HashOf(session)

C19_LockLifecycle ==
    \A p \in Procs :
        /\ IsAcquire(p) /\ args[p].retries >= 1 /\ ~lock0[p].exists /\ pc[p] = "idle" =>
               /\ result[p] = "true" /\ attempt[p] = 1 /\ sleeps[p] = 0
               /\ is_locked
               /\ LET info == inspect_lock(lock) IN
                      /\ info.exists /\ ~info.corrupt
                      /\ info.pid = p /\ info.alive
                      /\ info.session_hash = FingerprintOf(args[p].session)
                      /\ info.session_hash # EmptyStr
        /\ IsRelease(p) /\ pc[p] = "idle" =>
               ~is_locked /\ ~inspect_lock(lock).exists

\* a call without a session label has created the lock file in its first
\* attempt, and the record's fingerprint reads as None
C19_Witness ==
    /\ IsAcquire(Caller) /\ ~lock0[Caller].exists /\ pc[Caller] = "idle"
    /\ args[Caller].session = NoSession /\ result[Caller] = "true"
    /\ attempt[Caller] = 1
    /\ inspect_lock(lock).pid = Caller /\ inspect_lock(lock).session_hash = PyNone

\* C20: a try_acquire_lock call without force, with retries >= 1, that found
\* a lock file inspect_lock reports as corrupt has deleted it without a
\* sleep, created the caller's own lock in a later attempt and returned true.
C20_CorruptLockReclaimed ==
    \A p \in Procs :
        /\ IsAcquire(p) /\ ~args[p].force /\ args[p].retries >= 1
        /\ inspect_lock(lock0[p]).corrupt /\ pc[p] = "idle"
        => /\ result[p] = "true"
           /\ sleeps[p] = 0
           /\ inspect_lock(lock).pid = p

\* C21: the close of a write session removes the lock file it finds, whatever
\* process the record names; and a try_acquire_lock call without force that
\* began with no lock file, while the session that took the path by force
\* was still open, returns true.
C21_CloseStep ==
    \A p \in Procs :
        IsSession(p) /\ pc[p] = "exit_rel_remove" /\ pc'[p] = "idle" /\ lock.exists =>
            lock' = NoFile

C21_ThirdCaller ==
    IsAcquire(Caller) /\ ~args[Caller].force /\ ~lock0[Caller].exists
    /\ pc[Caller] = "idle"
    => result[Caller] = "true"

C21_CloseRemovesAnyLock ==
    /\ [][C21_CloseStep]_vars
    /\ [] C21_ThirdCaller

\* the Caller's session has closed while the other session, opened with
\* force, was running its block; the path was then unlocked, and the
\* Caller's call without force has acquired it with the other still open
C21_Witness ==
    /\ IsAcquire(Caller) /\ ~args[Caller].force /\ pc[Caller] = "idle"
    /\ ~lock0[Caller].exists /\ result[Caller] = "true"
    /\ IsSession(Other) /\ args[Other].force /\ pc[Other] = "block"
    /\ result[Other] = "true" /\ held[Other]
    /\ inspect_lock(lock).pid = Caller

====
